---------------------------- MODULE Spec2Model ----------------------------
(***************************************************************************)
(* Model of freediffusiontoolkit/siemens_tools.py: BasicSiemensTool and    *)
(* LegacySiemensTool (header construction, vector formatting, file         *)
(* writing).  freediffusiontoolkit/simens_tool.py is an earlier copy of    *)
(* the same classes whose methods cannot run (datetime is not imported,    *)
(* n_dims, b_values and construct_header are read as undefined globals);   *)
(* it is not modelled.                                                     *)
(*                                                                         *)
(* Representation.                                                         *)
(*  - A Python str is a sequence of tokens.  A token is either a control   *)
(*    character (CR, LF), a single character, or a chunk of text that      *)
(*    holds no CR and no LF.  String concatenation is \o.                  *)
(*  - A float is an integer number of thousandths; the values used are     *)
(*    multiples of 125 (eighths), which binary floating point holds        *)
(*    exactly, so that the rounding of the format mini-language (round     *)
(*    half to even on the exact value) is the rounding computed here.      *)
(*  - A file name is a record [kind, parts]: kind "Path" (a pathlib.Path   *)
(*    with the given components), "str" (a plain string) or "None".        *)
(*  - The file system maps a destination (the components of a path) to     *)
(*    [exists, text]; text is the character content read back with no      *)
(*    newline translation.                                                 *)
(***************************************************************************)
EXTENDS Integers, Sequences, FiniteSets, TLC

VARIABLES
    kwargs,  \* the keyword options the tool's constructor was called with
    tool,    \* the constructed tool object: [class, b_values, n_dims, options]
    fs,      \* the file system: destination -> [exists, text]
    op,      \* the name of the last call
    args,    \* the arguments of the last call
    header,  \* the list construct_header returned in the last call
    lines,   \* the strings write() handed to file.write, terminator excluded
    before,  \* what the destination held when the last write() opened it
    result,  \* the string the last vector_to_string returned
    raised   \* the exception the last call raised, or "none"

vars == <<kwargs, tool, fs, op, args, header, lines, before, result, raised>>

----------------------------------------------------------------------------
(* Bounds of the model.                                                    *)

MaxB == 2          \* a tool is configured with 1..MaxB b-values
MaxDims == 3       \* and 1..MaxDims dimensions
MaxDecimals == 6   \* vector_to_string is tried with 0..MaxDecimals decimals
MaxVecLen == 4     \* and with vectors of 2..MaxVecLen components
MaxIndex == 1      \* and with indices 0..MaxIndex

(* Defaults written in the source.                                         *)

DefaultNDims == 3        \* construct_header(n_dims=3)
DefaultDecimals == 6     \* vector_to_string(decimals=6)

----------------------------------------------------------------------------
(* Strings.                                                                *)

LF == "\n"
CR == "\r"

RECURSIVE Concat(_)
\* "".join(ss): the concatenation of a list of strings
Concat(ss) == IF ss = <<>> THEN <<>> ELSE Head(ss) \o Concat(Tail(ss))

\* whether string t occurs in string s at 1-based position i
OccursAt(s, t, i) == i + Len(t) - 1 <= Len(s) /\ SubSeq(s, i, i + Len(t) - 1) = t

\* Python's `t in s`
Contains(s, t) == \E i \in 1..(Len(s) + 1) : OccursAt(s, t, i)

\* Python's s.startswith(t)
StartsWith(s, t) == OccursAt(s, t, 1)

RECURSIVE Replace(_, _, _)
\* Python's s.replace(old, new), old non-empty: every occurrence, left to right
Replace(s, old, new) ==
    IF s = <<>> THEN <<>>
    ELSE IF OccursAt(s, old, 1)
         THEN new \o Replace(SubSeq(s, Len(old) + 1, Len(s)), old, new)
         ELSE <<Head(s)>> \o Replace(Tail(s), old, new)

RECURSIVE Digits(_)
\* the decimal digits of a natural number, one character each
Digits(n) == IF n < 10 THEN <<ToString(n)>> ELSE Digits(n \div 10) \o <<ToString(n % 10)>>

RECURSIVE Pow10(_)
Pow10(k) == IF k = 0 THEN 1 ELSE 10 * Pow10(k - 1)

RECURSIVE ZeroPad(_, _)
\* the digits of n, padded on the left with zeros to `width` characters
ZeroPad(n, width) ==
    IF width = 0 THEN <<>> ELSE ZeroPad(n \div 10, width - 1) \o <<ToString(n % 10)>>

Abs(x) == IF x < 0 THEN -x ELSE x

\* n / m rounded to the nearest integer, ties to the even one (n >= 0, m > 0)
RoundHalfEven(n, m) ==
    LET q == n \div m
        r == n % m
    IN  IF 2 * r > m \/ (2 * r = m /\ q % 2 = 1) THEN q + 1 ELSE q

\* |x| in units of 10^-decimals; x is in thousandths
ScaleTo(x, decimals) ==
    IF decimals >= 3 THEN Abs(x) * Pow10(decimals - 3)
    ELSE RoundHalfEven(Abs(x), Pow10(3 - decimals))

\* a variant of FormatFloat that cuts the extra digits off instead of rounding
FormatFloatTruncating(x, decimals) ==
    LET q == IF decimals >= 3 THEN Abs(x) * Pow10(decimals - 3)
             ELSE Abs(x) \div Pow10(3 - decimals)
    IN  <<IF x < 0 THEN "-" ELSE " ">>
        \o Digits(q \div Pow10(decimals))
        \o (IF decimals > 0 THEN <<".">> \o ZeroPad(q % Pow10(decimals), decimals)
            ELSE <<>>)

\* f"{x: .{decimals}f}": sign position (space or minus), integer digits, and,
\* when decimals > 0, a point and exactly `decimals` digits
FormatFloat(x, decimals) ==
    LET q == ScaleTo(x, decimals)
    IN  <<IF x < 0 THEN "-" ELSE " ">>
        \o Digits(q \div Pow10(decimals))
        \o (IF decimals > 0 THEN <<".">> \o ZeroPad(q % Pow10(decimals), decimals)
            ELSE <<>>)

\* BasicSiemensTool.vector_to_string: vector[2] raises IndexError on a vector
\* of fewer than 3 components
VectorToString(index, vector, decimals) ==
    IF Len(vector) < 3 THEN [raised |-> "IndexError", value |-> <<>>]
    ELSE [raised |-> "none",
          value |-> <<"Vector[", ToString(index), "] = (">>
                    \o FormatFloat(vector[1], decimals) \o <<",">>
                    \o FormatFloat(vector[2], decimals) \o <<",">>
                    \o FormatFloat(vector[3], decimals) \o <<")">>]

----------------------------------------------------------------------------
(* Python values.                                                          *)

\* dict.get(key, default)
Get(d, key, default) == IF key \in DOMAIN d THEN d[key] ELSE default

\* d[key] = value
Put(d, key, value) ==
    [k \in DOMAIN d \cup {key} |-> IF k = key THEN value ELSE d[k]]

\* the empty dict
EmptyDict == [k \in {} |-> <<>>]

None == [kind |-> "None", parts |-> <<>>]
EmptyStr == [kind |-> "str", parts |-> <<>>]
Path(parts) == [kind |-> "Path", parts |-> parts]

\* Path(filename).name: the final path component, "" when there is none
PathName(filename) ==
    IF filename.parts = <<>> THEN <<>> ELSE <<filename.parts[Len(filename.parts)]>>

Tuple(items) == [kind |-> "tuple", items |-> items]
List(items) == [kind |-> "list", items |-> items]

RECURSIVE JoinItems(_)
\* ", ".join(str(x) for x in items)
JoinItems(items) ==
    IF items = <<>> THEN <<>>
    ELSE IF Len(items) = 1 THEN <<ToString(items[1])>>
    ELSE <<ToString(items[1]), ", ">> \o JoinItems(Tail(items))

\* f"{b_values}" of a list or a tuple of integers
PyStr(b_values) ==
    IF b_values.kind = "tuple"
    THEN <<"(">> \o JoinItems(b_values.items)
         \o (IF Len(b_values.items) = 1 THEN <<",">> ELSE <<>>) \o <<")">>
    ELSE <<"[">> \o JoinItems(b_values.items) \o <<"]">>

----------------------------------------------------------------------------
(* Construction.                                                           *)

\* FreeDiffusionTool.__init__(b_values, n_dims, **kwargs): keeps the
\* configuration and the keyword options
FreeDiffusionToolInit(b_values, n_dims, kw) ==
    [class |-> "FreeDiffusionTool", b_values |-> b_values, n_dims |-> n_dims,
     options |-> kw]

\* BasicSiemensTool.__init__
BasicSiemensToolInit(b_values, n_dims, kw) ==
    [FreeDiffusionToolInit(b_values, n_dims, kw) EXCEPT !.class = "BasicSiemensTool"]

LegacyNewline == <<CR, LF>>
LegacyDefaultPath == <<"C:\\\\Medcom\\\\MriCustomer\\\\seq\\\\">>
CurrentDefaultPath == <<"C:\\\\Medcom\\\\MriCustomer\\\\seq\\\\DiffusionVectorSets\\\\">>

\* a variant of LegacySiemensTool.__init__ that keeps a newline option it was given
LegacySiemensToolInitKeepingNewline(b_values, n_dims, kw) ==
    LET self == BasicSiemensToolInit(b_values, n_dims, kw)
        nl == Get(self.options, "newline", LegacyNewline)
    IN  [self EXCEPT !.class = "LegacySiemensTool",
                     !.options = Put(Put(self.options, "newline", nl),
                                     "default_path", LegacyDefaultPath)]

\* LegacySiemensTool.__init__: the two options are set after the base
\* constructor has stored the keyword options
LegacySiemensToolInit(b_values, n_dims, kw) ==
    LET self == BasicSiemensToolInit(b_values, n_dims, kw)
    IN  [self EXCEPT !.class = "LegacySiemensTool",
                     !.options = Put(Put(self.options, "newline", LegacyNewline),
                                     "default_path", LegacyDefaultPath)]

----------------------------------------------------------------------------
(* BasicSiemensTool.construct_header                                       *)

SepLine == <<"# -----------------------------------------------------------------------------">>
DefaultFilename == <<"MyVectorSet.dvs">>
DefaultDescription == <<"Vector file for Siemens 'free' diffusion mode.">>
DefaultBValues == Tuple(<<0, 1000>>)

\* the line "[directions=<n>]"
DirectionsLine(n_directions) == <<"[directions=", ToString(n_directions), "]">>

\* a variant of the "number dimensions" line that emits nothing
NoDimensionsLines(n_dims) == <<>>

\* the line "number dimensions: <n_dims>"
DimensionsLines(n_dims) == << <<"number dimensions: ", ToString(n_dims)>> >>

\* a variant of the comment test that asks `if comment is not None:`
CommentLinesIfSet(self) ==
    IF "Comment" \in DOMAIN self.options
    THEN << <<"Comment: ">> \o self.options["Comment"] >>
    ELSE <<>>

\* `if comment:` is false for None and for the empty string
CommentLines(self) ==
    LET comment == Get(self.options, "Comment", <<>>)
    IN  IF comment # <<>> THEN << <<"Comment: ">> \o comment >> ELSE <<>>

\* the name put on the "# File:" line
HeaderFilename(filename) ==
    IF filename.kind # "None" THEN PathName(filename) ELSE DefaultFilename

\* construct_header(filename, n_dims, b_values), with `now` the formatted
\* current time
ConstructHeader(self, filename, n_dims, b_values, now) ==
    LET n_directions == Len(b_values.items) * n_dims
        default_path == Get(self.options, "default_path", CurrentDefaultPath)
        description == Get(self.options, "description", DefaultDescription)
        coordinate_system == Get(self.options, "CoordinateSystem", <<"xyz">>)
        normalisation == Get(self.options, "Normalisation", <<"none">>)
    IN  << SepLine,
           <<"# File: ">> \o default_path \o HeaderFilename(filename),
           <<"# Date: ", now>>,
           <<"# Description: ">> \o description,
           <<"b-values: ">> \o PyStr(b_values) >>
        \o DimensionsLines(n_dims)
        \o CommentLines(self)
        \o << SepLine,
              DirectionsLine(n_directions),
              <<"CoordinateSystem = ">> \o coordinate_system,
              <<"Normalisation = ">> \o normalisation >>

----------------------------------------------------------------------------
(* Writing.                                                                *)

\* destinations that can be created and written
Dests == { <<"out", "MySet.dvs">>, <<"DiffusionVectors.txt">> }

NoFile == [exists |-> FALSE, text |-> <<>>]

EmptyFs == [d \in Dests |-> NoFile]

\* the vectors the vector generator has to offer, cycled through in order
VectorPool == << <<0, 0, 0>>, <<-625, 625, 625>>, <<1000, 0, -125>> >>

\* FreeDiffusionTool.get_diffusion_vectors(): one 3-component vector per
\* b-value and dimension
GetDiffusionVectors(self) ==
    [i \in 1..(Len(self.b_values.items) * self.n_dims) |->
        VectorPool[((i - 1) % Len(VectorPool)) + 1]]

RECURSIVE Formattable(_)
\* how many leading vectors vector_to_string accepts before one raises
Formattable(vectors) ==
    IF vectors = <<>> \/ Len(Head(vectors)) < 3 THEN 0
    ELSE 1 + Formattable(Tail(vectors))

\* the strings write() hands to file.write before it ends or raises, without
\* the terminator: the header lines, then the vectors with their 0-based row
VectorLines(vectors) ==
    [i \in 1..Formattable(vectors) |->
        VectorToString(i - 1, vectors[i], DefaultDecimals).value]

\* what write() does to the file system and how it ends: filename.open(mode),
\* then file.write(line + newline) for each of fileLines; `complete` tells
\* whether every vector was reached
WriteOutcome(files, filename, fileLines, newline, complete, mode) ==
    IF filename.kind # "Path"
    THEN [fs |-> files, lines |-> <<>>, before |-> NoFile, raised |-> "AttributeError"]
    ELSE IF filename.parts \notin Dests
    THEN [fs |-> files, lines |-> <<>>, before |-> NoFile, raised |-> "OSError"]
    ELSE LET old == files[filename.parts]
             new == Concat([i \in 1..Len(fileLines) |-> fileLines[i] \o newline])
         IN  [fs |-> [files EXCEPT ![filename.parts] =
                         [exists |-> TRUE,
                          text |-> IF mode = "a" THEN old.text \o new ELSE new]],
              lines |-> fileLines,
              before |-> old,
              raised |-> IF complete THEN "none" ELSE "IndexError"]

\* a variant of write() that opens the file with mode "a"
WriteAppending(self, files, filename, hdr, vectors) ==
    WriteOutcome(files, filename, hdr \o VectorLines(vectors),
                 Get(self.options, "newline", <<LF>>),
                 Formattable(vectors) = Len(vectors), "a")

\* BasicSiemensTool.write(filename, header, diffusion_vectors): filename.open("w")
\* truncates; every header line, then every vector line, each followed by
\* options.get("newline", "\n"); a vector of fewer than 3 components raises
\* IndexError and leaves what was written before it
Write(self, files, filename, hdr, vectors) ==
    WriteOutcome(files, filename, hdr \o VectorLines(vectors),
                 Get(self.options, "newline", <<LF>>),
                 Formattable(vectors) = Len(vectors), "w")

\* BasicSiemensTool.save(filename): the header is built with the defaults of
\* construct_header for n_dims and b_values
Save(self, files, filename, now) ==
    LET hdr == ConstructHeader(self, filename, DefaultNDims, DefaultBValues, now)
    IN  [header |-> hdr,
         write |-> Write(self, files, filename, hdr, GetDiffusionVectors(self))]

\* a variant of the loop of LegacySiemensTool.save that leaves the header as built
LegacyHeaderUnchanged(hdr) == hdr

\* the loop of LegacySiemensTool.save over the header lines
LegacyHeader(hdr) ==
    [i \in 1..Len(hdr) |->
        IF StartsWith(hdr[i], <<"[directions=">>)
        THEN Replace(hdr[i], <<"[directions=">>, <<>>)
        ELSE hdr[i]]

\* LegacySiemensTool.save(filename, **options): the options are not read
LegacySave(self, files, filename, options, now) ==
    LET hdr == ConstructHeader(self, filename, DefaultNDims, DefaultBValues, now)
    IN  [header |-> hdr,
         write |-> Write(self, files, filename, LegacyHeader(hdr),
                         GetDiffusionVectors(self))]

----------------------------------------------------------------------------
(* Inputs.                                                                 *)

OptionKeys ==
    {"description", "Comment", "CoordinateSystem", "Normalisation",
     "default_path", "newline"}

\* the values tried for each keyword option
OptionValues(key) ==
    CASE key = "description" ->
            { <<"Custom description">>, <<"two", LF, "lines">>,
              <<"two", CR, LF, "lines">> }
      [] key = "Comment" -> { <<>>, <<"a comment">> }
      [] key = "CoordinateSystem" -> { <<"prs">> }
      [] key = "Normalisation" -> { <<"maximum">> }
      [] key = "default_path" -> { <<"D:\\\\dvs\\\\">> }
      [] key = "newline" -> { <<LF>>, <<CR, LF>> }

\* a bag with every option set
FullOptions ==
    [key \in OptionKeys |->
        CASE key = "description" -> <<"Custom description">>
          [] key = "Comment" -> <<"a comment">>
          [] key = "CoordinateSystem" -> <<"prs">>
          [] key = "Normalisation" -> <<"maximum">>
          [] key = "default_path" -> <<"D:\\\\dvs\\\\">>
          [] key = "newline" -> <<LF>>]

\* the keyword options a constructor is given: none, any single one, or all
OptionBags ==
    {EmptyDict, FullOptions}
    \cup UNION { { Put(EmptyDict, key, v) : v \in OptionValues(key) } : key \in OptionKeys }

BPool == <<0, 1000, 500, 2000, 3000>>

Min(a, b) == IF a < b THEN a ELSE b

\* the b-values a tool is configured with
ToolBValues == { List(SubSeq(BPool, 1, k)) : k \in 1..Min(MaxB, Len(BPool)) }

\* the b-values construct_header is called with: the default, and lists of
\* 0..MaxB values
HeaderBValues ==
    {DefaultBValues} \cup { List(SubSeq(BPool, 1, k)) : k \in 0..Min(MaxB, Len(BPool)) }

\* the file names save() is called with; "" is the default of BasicSiemensTool.save
SaveFilenames == {EmptyStr} \cup { Path(d) : d \in Dests }

\* the file names construct_header is called with; None is its default
HeaderFilenames == {None, EmptyStr, Path(<<"out", "MySet.dvs">>)}

\* strftime("%a %b %d %H:%M:%S %Y") of the times at which headers are built
Timestamps == {"Wed Jan 15 14:32:07 2025", "Thu Jan 16 09:05:41 2025"}

\* the time at which save() is called
SaveTimestamps == {"Wed Jan 15 14:32:07 2025"}

\* headers and vector lists write() is called with directly: a vector of 2
\* components between two of 3, and a vector of 4 components before one of 3
WriteHeaders == { << <<"# h">>, <<"k = v">> >> }
WriteVectors ==
    { << <<1000, 0, -125>>, <<125, 250>>, <<0, 0, 0>> >>,
      << <<375, -1000, 2500, 125>>, <<-625, 625, 625>> >> }

\* the components vector_to_string is tried with, in thousandths
Components == {-1500, -125, 0, 375, 2500}

FormatVectors == UNION { [1..n -> Components] : n \in 2..MaxVecLen }

----------------------------------------------------------------------------
(* The state machine.                                                      *)

NoArgs ==
    [filename |-> None, n_dims |-> 0, b_values |-> Tuple(<<>>), header |-> <<>>,
     vectors |-> <<>>, index |-> 0, vector |-> <<>>, decimals |-> 0]

\* the state after a tool has been constructed, with the arguments of the call
\* to come, if they are already chosen
Constructed(kw, t, a) ==
    /\ kwargs = kw
    /\ tool = t
    /\ fs = EmptyFs
    /\ op = "init"
    /\ args = a
    /\ header = <<>>
    /\ lines = <<>>
    /\ before = NoFile
    /\ result = <<>>
    /\ raised = "none"

Init ==
    \E b_values \in ToolBValues, n_dims \in 1..MaxDims, kw \in OptionBags :
        \/ Constructed(kw, BasicSiemensToolInit(b_values, n_dims, kw), NoArgs)
        \/ Constructed(kw, LegacySiemensToolInit(b_values, n_dims, kw), NoArgs)

\* tool.construct_header(filename, n_dims, b_values)
CallConstructHeader(filename, n_dims, b_values) ==
    \E now \in Timestamps :
        /\ op = "init"
        /\ op' = "construct_header"
        /\ header' = ConstructHeader(tool, filename, n_dims, b_values, now)
        /\ UNCHANGED args
        /\ raised' = "none"
        /\ lines' = <<>>
        /\ before' = NoFile
        /\ result' = <<>>
        /\ UNCHANGED <<kwargs, tool, fs>>

\* what a save() leaves behind
Saved(filename, out) ==
    /\ op' = "save"
    /\ args' = [NoArgs EXCEPT !.filename = filename]
    /\ header' = out.header
    /\ fs' = out.write.fs
    /\ lines' = out.write.lines
    /\ before' = out.write.before
    /\ raised' = out.write.raised
    /\ result' = <<>>
    /\ UNCHANGED <<kwargs, tool>>

\* tool.save(filename) on a BasicSiemensTool
CallSave(filename) ==
    /\ tool.class = "BasicSiemensTool"
    /\ \E now \in SaveTimestamps : Saved(filename, Save(tool, fs, filename, now))

\* tool.save(filename, **options) on a LegacySiemensTool
CallLegacySave(filename, options) ==
    /\ tool.class = "LegacySiemensTool"
    /\ \E now \in SaveTimestamps :
          Saved(filename, LegacySave(tool, fs, filename, options, now))

\* tool.write(filename, header, diffusion_vectors)
CallWrite(filename, hdr, vectors) ==
    LET out == Write(tool, fs, filename, hdr, vectors)
    IN  /\ op' = "write"
        /\ args' = [NoArgs EXCEPT !.filename = filename, !.header = hdr,
                                  !.vectors = vectors]
        /\ header' = <<>>
        /\ fs' = out.fs
        /\ lines' = out.lines
        /\ before' = out.before
        /\ raised' = out.raised
        /\ result' = <<>>
        /\ UNCHANGED <<kwargs, tool>>

\* BasicSiemensTool.vector_to_string(index, vector, decimals)
CallVectorToString(index, vector, decimals) ==
    LET out == VectorToString(index, vector, decimals)
    IN  /\ op = "init"
        /\ op' = "vector_to_string"
        /\ UNCHANGED args
        /\ result' = out.value
        /\ raised' = out.raised
        /\ header' = <<>>
        /\ lines' = <<>>
        /\ before' = NoFile
        /\ UNCHANGED <<kwargs, tool, fs>>

\* saving and writing files
Next ==
    \/ \E filename \in SaveFilenames : CallSave(filename)
    \/ \E filename \in SaveFilenames, options \in {EmptyDict, Put(EmptyDict, "newline", <<LF>>)} :
          CallLegacySave(filename, options)
    \/ \E d \in Dests, hdr \in WriteHeaders, vectors \in WriteVectors :
          CallWrite(Path(d), hdr, vectors)

Spec == Init /\ [][Next]_vars

\* building headers: a tool with any options, and one call of construct_header
\* with the arguments drawn at the start
InitHeader ==
    \E kw \in OptionBags, filename \in HeaderFilenames,
       n_dims \in (-1)..MaxDims, b_values \in HeaderBValues :
        LET a == [NoArgs EXCEPT !.filename = filename, !.n_dims = n_dims,
                                !.b_values = b_values]
        IN  \/ Constructed(kw, BasicSiemensToolInit(List(<<0, 1000>>), DefaultNDims, kw), a)
            \/ Constructed(kw, LegacySiemensToolInit(List(<<0, 1000>>), DefaultNDims, kw), a)

NextHeader == CallConstructHeader(args.filename, args.n_dims, args.b_values)

SpecHeader == InitHeader /\ [][NextHeader]_vars

\* formatting vectors: a static method, tried on a tool built with the
\* defaults, one call with the arguments drawn at the start
InitFormat ==
    \E index \in 0..MaxIndex, vector \in FormatVectors, decimals \in 0..MaxDecimals :
        Constructed(EmptyDict,
                    BasicSiemensToolInit(List(<<0, 1000>>), DefaultNDims, EmptyDict),
                    [NoArgs EXCEPT !.index = index, !.vector = vector,
                                   !.decimals = decimals])

NextFormat == CallVectorToString(args.index, args.vector, args.decimals)

SpecFormat == InitFormat /\ [][NextFormat]_vars

----------------------------------------------------------------------------
(* Properties.                                                             *)

\* the terminator the tool is configured with
Terminator == Get(tool.options, "newline", <<LF>>)

\* the file the last call named
Destination == fs[args.filename.parts]

\* the last call was a save() that ran to its end
SaveDone == op = "save" /\ raised = "none"

RECURSIVE Terminated(_, _)
\* the text of a file that holds the given lines, each followed by nl
Terminated(ls, nl) ==
    IF ls = <<>> THEN <<>> ELSE Head(ls) \o nl \o Terminated(Tail(ls), nl)

\* the positions of the lines of ls that begin with the token `first`
Beginning(ls, first) == { i \in 1..Len(ls) : ls[i] # <<>> /\ ls[i][1] = first }

\* the direction count the tool's configuration calls for
ConfiguredDirections == Len(tool.b_values.items) * tool.n_dims

(* C1: for a tool configured with valid b-values and dimensions, the        *)
(* direction-marker line carries len(b_values) * n_dims, in the header that *)
(* construct_header returns when given that configuration and in the header *)
(* that save() writes to the file.                                          *)
C1_DirectionCount ==
    /\ (op = "construct_header" /\ args.b_values.items # <<>> /\ args.n_dims > 0) =>
          \E i \in 1..Len(header) :
              header[i] = <<"[directions=",
                            ToString(Len(args.b_values.items) * args.n_dims), "]">>
    /\ SaveDone =>
          \E i \in 1..Len(lines) :
              \/ lines[i] = <<"[directions=", ToString(ConfiguredDirections), "]">>
              \/ lines[i] = <<ToString(ConfiguredDirections), "]">>

\* the lines write() is to produce for the vectors, numbered from 0
RECURSIVE NumberedVectorLines(_, _)
NumberedVectorLines(vectors, index) ==
    IF vectors = <<>> THEN <<>>
    ELSE <<VectorToString(index, Head(vectors), DefaultDecimals).value>>
         \o NumberedVectorLines(Tail(vectors), index + 1)

(* C2: a write() that runs to its end leaves the destination holding        *)
(* exactly every header line in order, each followed by the terminator,     *)
(* then the formatted line of every vector with its 0-based position, each  *)
(* followed by the terminator; what the destination held before is gone.    *)
C2_WriteContent ==
    (op = "write" /\ raised = "none") =>
        /\ Destination.exists
        /\ Destination.text =
              Terminated(args.header \o NumberedVectorLines(args.vectors, 0), Terminator)

\* a write() that ran to its end over a destination that held other text
C2_Witness ==
    /\ op = "write" /\ raised = "none"
    /\ args.header # <<>> /\ Len(args.vectors) >= 2
    /\ before.exists /\ before.text # <<>> /\ before.text # Destination.text

(* C3: in a file saved by a BasicSiemensTool built without options every    *)
(* header line and every vector line is followed by a single line-feed and  *)
(* the file holds no carriage-return; in a file saved by a                  *)
(* LegacySiemensTool every header line and every vector line is followed by *)
(* carriage-return + line-feed, whatever options its constructor was given. *)
C3_Terminators ==
    SaveDone =>
        /\ (tool.class = "BasicSiemensTool" /\ kwargs = EmptyDict) =>
              /\ Destination.text = Terminated(lines, <<LF>>)
              /\ \A i \in 1..Len(Destination.text) : Destination.text[i] # CR
        /\ tool.class = "LegacySiemensTool" =>
              Destination.text = Terminated(lines, <<CR, LF>>)

\* a legacy tool that was constructed with newline="\n" has saved a file
C3_Witness ==
    /\ SaveDone
    /\ tool.class = "LegacySiemensTool"
    /\ "newline" \in DOMAIN kwargs /\ kwargs["newline"] = <<LF>>
    /\ Len(lines) > Len(header) /\ header # <<>>

(* C4: in a file saved by the legacy variant, the direction-marker line is  *)
(* the line "[directions=<N>]" of the built header with that prefix         *)
(* removed, "<N>]", and does not contain "[directions="; every other header *)
(* line is written as the builder produced it.                              *)
C4_LegacyMarker ==
    (SaveDone /\ tool.class = "LegacySiemensTool") =>
        /\ Cardinality(Beginning(header, "[directions=")) = 1
        /\ Len(lines) >= Len(header)
        /\ \A i \in 1..Len(header) :
              IF i \in Beginning(header, "[directions=")
              THEN /\ Len(header[i]) = 3 /\ header[i][3] = "]"
                   /\ lines[i] = <<header[i][2], "]">>
                   /\ ~Contains(lines[i], <<"[directions=">>)
              ELSE lines[i] = header[i]
        /\ Destination.text = Terminated(lines, Terminator)

\* a legacy tool has saved a file whose marker line is "6]"
C4_Witness ==
    /\ SaveDone /\ tool.class = "LegacySiemensTool"
    /\ \E i \in 1..Len(lines) : lines[i] = <<"6", "]">>

\* the written lines are header lines followed by `count` vector lines that
\* carry the indices 0..count-1
VectorLinesLast(count) ==
    LET h == Len(lines) - count
    IN  /\ h >= 0
        /\ Beginning(lines, "Vector[") = (h + 1)..Len(lines)
        /\ \A i \in 1..count : lines[h + i][2] = ToString(i - 1)

\* the number of written header lines, the Comment and b-values lines aside
FixedHeaderLines ==
    Cardinality((1..Len(lines)) \ (Beginning(lines, "Vector[")
                                   \cup Beginning(lines, "Comment: ")
                                   \cup Beginning(lines, "b-values: ")))

\* the tool is configured without a comment
NoComment == "Comment" \notin DOMAIN tool.options

(* C5 as stated: a file saved without a comment has one Vector line per     *)
(* vector, indices from 0, after 8 header lines (current variant) or 7      *)
(* (legacy), the Comment and b-values lines not counted.                    *)
C5_HeaderLineCounts ==
    (SaveDone /\ NoComment) =>
        /\ VectorLinesLast(Len(GetDiffusionVectors(tool)))
        /\ FixedHeaderLines = (IF tool.class = "LegacySiemensTool" THEN 7 ELSE 8)
        /\ Destination.text = Terminated(lines, Terminator)

(* C5 amended: a file saved without a comment has one Vector line per       *)
(* vector, indices from 0, after 9 header lines in the current and in the   *)
(* legacy variant alike, the Comment and b-values lines not counted: the    *)
(* legacy header keeps the "number dimensions" line.                        *)
C5_HeaderLineCountsAmended ==
    (SaveDone /\ NoComment) =>
        /\ VectorLinesLast(Len(GetDiffusionVectors(tool)))
        /\ FixedHeaderLines = 9
        /\ Beginning(lines, "number dimensions: ") # {}
        /\ Destination.text = Terminated(lines, Terminator)

\* a tool with b-values [0, 1000] and 3 dimensions has saved its 6 vectors
C5_Witness ==
    /\ SaveDone /\ NoComment
    /\ tool.b_values.items = <<0, 1000>> /\ tool.n_dims = 3
    /\ Cardinality(Beginning(lines, "Vector[")) = 6

\* the last call was construct_header
HeaderBuilt == op = "construct_header"

(* C6: building a header for an empty b-value sequence or for n_dims <= 0   *)
(* is rejected with an InvalidConfiguration error: no header is returned    *)
(* and no direction-marker line is emitted.                                 *)
C6_InvalidConfigurationRejected ==
    (HeaderBuilt /\ (args.b_values.items = <<>> \/ args.n_dims <= 0)) =>
        /\ raised = "InvalidConfiguration"
        /\ header = <<>>

\* the directory put on the "# File:" line
Directory ==
    IF "default_path" \in DOMAIN tool.options THEN tool.options["default_path"]
    ELSE <<"C:\\\\Medcom\\\\MriCustomer\\\\seq\\\\DiffusionVectorSets\\\\">>

(* C7: the "# File:" line is "# File: <directory>MyVectorSet.dvs" when the  *)
(* output name is empty or absent, and "# File: <directory>" followed by    *)
(* the final component of the output name otherwise.                        *)
C7_FileLine ==
    HeaderBuilt =>
        /\ Len(header) >= 2
        /\ header[2] =
              <<"# File: ">> \o Directory
              \o (IF args.filename.parts = <<>> THEN <<"MyVectorSet.dvs">>
                  ELSE <<args.filename.parts[Len(args.filename.parts)]>>)

\* the lines of ls whose position is not in `positions`, in order
Remaining(ls, positions) ==
    LET keep == { i \in 1..Len(ls) : i \notin positions }
        F[i \in 0..Len(ls)] ==
            IF i = 0 THEN <<>>
            ELSE IF i \in keep THEN Append(F[i - 1], ls[i]) ELSE F[i - 1]
    IN  F[Len(ls)]

\* the header the same call returns from a tool that has no Comment option
HeaderWithoutComment ==
    ConstructHeader(
        [tool EXCEPT !.options = [k \in DOMAIN tool.options \ {"Comment"} |->
                                     tool.options[k]]],
        args.filename, args.n_dims, args.b_values, header[3][2])

\* the header holds exactly one Comment line, "Comment: <comment>", right
\* after the "number dimensions" line and right before the second separator,
\* and is otherwise the header built without a comment
OneCommentLine(comment) ==
    \E i \in 2..(Len(header) - 1) :
        /\ Beginning(header, "Comment: ") = {i}
        /\ header[i] = <<"Comment: ">> \o comment
        /\ header[i - 1] = <<"number dimensions: ", ToString(args.n_dims)>>
        /\ header[i + 1] = SepLine
        /\ Beginning(header, SepLine[1]) = {1, i + 1}
        /\ Remaining(header, {i}) = HeaderWithoutComment

(* C8 as stated: with no comment option set the header has no line          *)
(* beginning "Comment:"; with a comment option set it has exactly one line  *)
(* "Comment: <comment>", after the "number dimensions" line and immediately *)
(* before the second separator, the other lines being those of the header   *)
(* without the comment.                                                     *)
C8_CommentLine ==
    HeaderBuilt =>
        IF "Comment" \in DOMAIN tool.options
        THEN OneCommentLine(tool.options["Comment"])
        ELSE Beginning(header, "Comment: ") = {}

(* C8 amended: with no comment option set, or with one set to the empty     *)
(* string, the header has no line beginning "Comment:"; with a non-empty    *)
(* comment set it has exactly one line "Comment: <comment>", after the      *)
(* "number dimensions" line and immediately before the second separator,    *)
(* the other lines being those of the header without the comment.           *)
C8_CommentLineAmended ==
    HeaderBuilt =>
        IF "Comment" \in DOMAIN tool.options /\ tool.options["Comment"] # <<>>
        THEN OneCommentLine(tool.options["Comment"])
        ELSE /\ Beginning(header, "Comment: ") = {}
             /\ header = HeaderWithoutComment

\* a header has been built by a tool whose comment is not empty
C8_Witness ==
    /\ HeaderBuilt
    /\ "Comment" \in DOMAIN tool.options /\ tool.options["Comment"] = <<"a comment">>
    /\ Beginning(header, "Comment: ") # {}

(* C9: whatever the output name and the options, no header line the builder *)
(* returns contains the configured terminator.                              *)
C9_NoTerminatorInHeaderLines ==
    HeaderBuilt => \A i \in 1..Len(header) : ~Contains(header[i], Terminator)

----------------------------------------------------------------------------
(* vector_to_string                                                        *)

DigitChars == { ToString(d) : d \in 0..9 }

DigitValue(c) == CHOOSE d \in 0..9 : ToString(d) = c

\* the number a non-empty sequence of digit characters denotes
NumberOf(ds) ==
    LET F[i \in 0..Len(ds)] == IF i = 0 THEN 0 ELSE 10 * F[i - 1] + DigitValue(ds[i])
    IN  F[Len(ds)]

\* s is x (in thousandths) in fixed point with exactly `decimals` fractional
\* digits: a sign position, " " for x >= 0 and "-" for x < 0, the integer
\* digits with no needless leading zero, then, when decimals > 0, a point and
\* `decimals` digits; the number written is the nearest to |x|
IsFixedPoint(s, x, decimals) ==
    LET point == IF decimals > 0 THEN 1 ELSE 0
        nInt == Len(s) - 1 - point - decimals
        intDigits == SubSeq(s, 2, 1 + nInt)
        fracDigits == SubSeq(s, Len(s) - decimals + 1, Len(s))
        written == NumberOf(intDigits \o fracDigits)
    IN  /\ nInt >= 1
        /\ s[1] = (IF x < 0 THEN "-" ELSE " ")
        /\ \A i \in 1..Len(intDigits) : intDigits[i] \in DigitChars
        /\ \A i \in 1..Len(fracDigits) : fracDigits[i] \in DigitChars
        /\ nInt > 1 => intDigits[1] # "0"
        /\ decimals > 0 => s[2 + nInt] = "."
        /\ Len(fracDigits) = decimals
        /\ IF decimals >= 3 THEN written = Abs(x) * Pow10(decimals - 3)
           ELSE 2 * Abs(written * Pow10(3 - decimals) - Abs(x)) <= Pow10(3 - decimals)

\* the positions of the commas of a string
Commas(s) == { i \in 1..Len(s) : s[i] = "," }

(* C10: vector_to_string(index, vector, decimals) returns                   *)
(* "Vector[<index>] = (" s0 "," s1 "," s2 ")", each s_i the i-th component  *)
(* in fixed point with exactly `decimals` fractional digits after a sign    *)
(* position that is a space for a non-negative component and "-" for a      *)
(* negative one; components after the third are not used; a vector of fewer *)
(* than 3 components raises an error and yields no string.                  *)
C10_VectorFormat ==
    op = "vector_to_string" =>
        IF Len(args.vector) < 3
        THEN raised = "IndexError" /\ result = <<>>
        ELSE /\ raised = "none"
             /\ Cardinality(Commas(result)) = 2
             /\ \E c1, c2 \in Commas(result) :
                   /\ c1 < c2
                   /\ SubSeq(result, 1, 3) = <<"Vector[", ToString(args.index), "] = (">>
                   /\ IsFixedPoint(SubSeq(result, 4, c1 - 1), args.vector[1], args.decimals)
                   /\ IsFixedPoint(SubSeq(result, c1 + 1, c2 - 1), args.vector[2], args.decimals)
                   /\ IsFixedPoint(SubSeq(result, c2 + 1, Len(result) - 1), args.vector[3],
                                   args.decimals)
                   /\ result[Len(result)] = ")"

\* a vector of 4 components with a negative first one has been formatted with
\* 2 decimals, fewer than its components carry
C10_Witness ==
    /\ op = "vector_to_string" /\ raised = "none"
    /\ Len(args.vector) = 4 /\ args.vector[1] = -125 /\ args.vector[3] = 375
    /\ args.vector[4] # args.vector[3]
    /\ args.decimals = 2
    /\ result = <<"Vector[", ToString(args.index), "] = (", "-", "0", ".", "1", "2", ",">>
                \o FormatFloat(args.vector[2], 2)
                \o <<",", " ", "0", ".", "3", "8", ")">>

============================================================================
